---- MODULE Spec2Model ----
(***************************************************************************)
(* Model of lgi's GObject / GTypeInstance proxy handling (src/object.c).   *)
(*                                                                         *)
(* Native objects live in the GType object system; Lua-side proxies are    *)
(* userdata kept in two registry tables: cache_weak (weak values) and      *)
(* cache_strong.  The model follows the C code handler by handler; the     *)
(* GObject primitives it calls (g_object_ref, g_object_unref, toggle       *)
(* references) and the Lua 5.1 collector (weak-value tables, __gc) are     *)
(* modelled by their documented behaviour at the places the code uses them.*)
(***************************************************************************)
EXTENDS Integers, Sequences, FiniteSets, TLC

\* ------------------------------------------------------------------ bounds
\* Largest reference count an object reaches (external g_object_ref stops there).
MaxRef == 3
\* Number of proxy userdata created in one behaviour.
MaxRec == 2
\* Number of times a script calls the __gc metamethod of one proxy itself.
MaxScriptGc == 1

\* ------------------------------------------------------------- type system
\* G_TYPE_INVALID ends every parent chain.
G_TYPE_INVALID == 0
\* Fundamental type of GObject.
G_TYPE_OBJECT == 1
\* A class derived from GObject.
GTypeDerived == 2
\* A fundamental instantiatable type that is not GObject.
GTypeFund == 3
\* A type derived from GTypeFund.
GTypeFundSub == 4

GTypes == {G_TYPE_OBJECT, GTypeDerived, GTypeFund, GTypeFundSub}

g_type_parent(gtype) ==
  CASE gtype = GTypeDerived -> G_TYPE_OBJECT
    [] gtype = GTypeFundSub -> GTypeFund
    [] OTHER -> G_TYPE_INVALID

G_TYPE_FUNDAMENTAL(gtype) ==
  IF g_type_parent(gtype) = G_TYPE_INVALID THEN gtype
  ELSE IF g_type_parent(g_type_parent(gtype)) = G_TYPE_INVALID
       THEN g_type_parent(gtype)
       ELSE g_type_parent(g_type_parent(gtype))

G_TYPE_IS_OBJECT(gtype) == G_TYPE_FUNDAMENTAL(gtype) = G_TYPE_OBJECT

\* Names of the typetable functions the code loads.
HookNames == {"_refsink", "_unref"}

\* Native pointers; NULL is 0.
Ptrs == {1, 2}
NULL == 0

VARIABLES
  gtypeOf,   \* G_TYPE_FROM_INSTANCE of every native object
  repo,      \* lgi repo: per gtype, whether a typetable exists and its functions
  girepo,    \* GIRepository: per gtype, whether an info exists and its ref/unref
  rc,        \* native reference count per object, 0 once the object is freed
  floating,  \* floating flag per object
  ext,       \* references held by parties other than the binding
  ntoggle,   \* toggle references registered by the binding per object
  weak,      \* cache_weak:   pointer -> proxy id, 0 for nil
  strong,    \* cache_strong: pointer -> proxy id, 0 for nil
  recs,      \* proxies created so far, in order of creation
  fault,     \* "none", or how the process left defined behaviour
  last,      \* the operation that led to this state
  res,       \* arguments and results of the last call made from Lua
  thr        \* the callback context and where each thread stands

vars == <<gtypeOf, repo, girepo, rc, floating, ext, ntoggle, weak, strong,
          recs, fault, last, res, thr>>
types == <<gtypeOf, repo, girepo>>

\* --------------------------------------------------------- type resolution
\* lgi_type_get_repotype leaves a table or nil.
lgi_type_get_repotype(gtype) == repo[gtype].reg

\* Mutant: only the type itself is looked up, its parents are not walked.
object_type_noWalk(gtype) ==
  IF gtype = G_TYPE_INVALID THEN G_TYPE_INVALID
  ELSE IF lgi_type_get_repotype(gtype) THEN gtype
  ELSE G_TYPE_INVALID

RECURSIVE object_type(_)
object_type(gtype) ==
  IF gtype = G_TYPE_INVALID THEN G_TYPE_INVALID
  ELSE IF lgi_type_get_repotype(gtype) THEN gtype
  ELSE object_type(g_type_parent(gtype))

\* TRUE when the function pointer is not NULL.
object_load_function(gtype, name) ==
  /\ object_type(gtype) # G_TYPE_INVALID
  /\ name \in repo[object_type(gtype)].hooks

\* The info found for gtype, falling back to its fundamental type; 0 is NULL.
FindInfo(gtype) ==
  IF girepo[gtype].reg THEN gtype
  ELSE IF girepo[G_TYPE_FUNDAMENTAL(gtype)].reg THEN G_TYPE_FUNDAMENTAL(gtype)
  ELSE 0

\* ------------------------------------------------------------ the world
\* The part of the state the C functions read and write, passed through the
\* calls of one handler; warn and ret are the handler's diagnostics and result.
World ==
  [rc |-> rc, fl |-> floating, nt |-> ntoggle, weak |-> weak,
   strong |-> strong, recs |-> recs, fault |-> fault, warn |-> FALSE,
   hit |-> FALSE, ret |-> 0]

\* Mutant: the is_last_ref flag is read the wrong way round.
object_toggle_notify_swapped(w, object, is_last_ref) ==
  [w EXCEPT !.strong[object] = IF is_last_ref THEN w.weak[object] ELSE 0]

\* Mutant: the proxy is never stored into the strong cache.
object_toggle_notify_noRetain(w, object, is_last_ref) ==
  [w EXCEPT !.strong[object] = 0]

\* Mutant: the proxy to retain is taken from the proxies created for the
\* pointer instead of being looked up in the weak cache.
object_toggle_notify_byPointer(w, object, is_last_ref) ==
  LET mine == {r \in DOMAIN w.recs : w.recs[r].native = object}
      newest == IF mine = {} THEN 0
                ELSE CHOOSE r \in mine : \A q \in mine : q <= r
  IN [w EXCEPT !.strong[object] = IF is_last_ref THEN 0 ELSE newest]

\* GObject toggle-ref notification callback: stores the weak cache's proxy
\* (or nil) into the strong cache slot of the object.
object_toggle_notify(w, object, is_last_ref) ==
  [w EXCEPT !.strong[object] = IF is_last_ref THEN 0 ELSE w.weak[object]]

\* GObject notifies the one toggle reference; it asserts there is exactly one.
toggle_refs_notify(w, object, is_last_ref) ==
  IF w.nt[object] = 1 THEN object_toggle_notify(w, object, is_last_ref)
  ELSE [w EXCEPT !.fault = "assert"]

g_object_ref(w, obj) ==
  LET w1 == [w EXCEPT !.rc[obj] = @ + 1]
  IN IF w.rc[obj] = 1 /\ w.nt[obj] > 0
     THEN toggle_refs_notify(w1, obj, FALSE) ELSE w1

\* Dropping the last reference disposes the object and its toggle references.
g_object_unref(w, obj) ==
  IF w.rc[obj] > 1
  THEN LET w1 == [w EXCEPT !.rc[obj] = @ - 1]
       IN IF w.rc[obj] = 2 /\ w.nt[obj] > 0
          THEN toggle_refs_notify(w1, obj, TRUE) ELSE w1
  ELSE [w EXCEPT !.rc[obj] = 0, !.nt[obj] = 0]

g_object_ref_sink(w, obj) ==
  LET w1 == g_object_ref(w, obj)
  IN IF w.fl[obj] THEN g_object_unref([w1 EXCEPT !.fl[obj] = FALSE], obj)
     ELSE w1

g_object_add_toggle_ref(w, obj) ==
  LET w1 == g_object_ref(w, obj)
  IN [w1 EXCEPT !.nt[obj] = @ + 1]

\* Removes one toggle reference of this callback and drops its reference;
\* warns and does nothing when none is registered.
g_object_remove_toggle_ref(w, obj) ==
  IF w.nt[obj] > 0
  THEN g_object_unref([w EXCEPT !.nt[obj] = @ - 1], obj)
  ELSE [w EXCEPT !.warn = TRUE]

\* Type-specific functions of other fundamental types.
ref_function(w, obj) == [w EXCEPT !.rc[obj] = @ + 1]

refsink_func(w, obj) ==
  IF w.fl[obj] THEN [w EXCEPT !.fl[obj] = FALSE]
  ELSE [w EXCEPT !.rc[obj] = @ + 1]

unref_function(w, obj) == [w EXCEPT !.rc[obj] = @ - 1]

\* ------------------------------------------------------ Lifetime manager
\* Mutant: the _refsink typetable function is tried before the ref function
\* of the info.
object_refsink_hookFirst(w, obj) ==
  LET gtype == gtypeOf[obj]
      info == FindInfo(gtype)
  IN IF G_TYPE_IS_OBJECT(gtype)
     THEN [w |-> g_object_ref_sink(w, obj), ok |-> TRUE]
     ELSE IF object_load_function(gtype, "_refsink")
     THEN [w |-> refsink_func(w, obj), ok |-> TRUE]
     ELSE IF info # 0 /\ girepo[info].ref
     THEN [w |-> ref_function(w, obj), ok |-> TRUE]
     ELSE [w |-> [w EXCEPT !.warn = TRUE], ok |-> FALSE]

\* Adds one reference to the object; ok is the C function's return value.
object_refsink(w, obj) ==
  LET gtype == gtypeOf[obj]
      info == FindInfo(gtype)
  IN IF G_TYPE_IS_OBJECT(gtype)
     THEN [w |-> g_object_ref_sink(w, obj), ok |-> TRUE]
     ELSE IF info # 0 /\ girepo[info].ref
     THEN [w |-> ref_function(w, obj), ok |-> TRUE]
     ELSE IF object_load_function(gtype, "_refsink")
     THEN [w |-> refsink_func(w, obj), ok |-> TRUE]
     ELSE [w |-> [w EXCEPT !.warn = TRUE], ok |-> FALSE]

\* Mutant: a GObject is always released with a plain g_object_unref, the
\* toggle reference stays registered.
object_unref_plain(w, obj, remove_proxy) ==
  LET gtype == gtypeOf[obj]
      info == FindInfo(gtype)
  IN IF w.rc[obj] = 0 THEN [w EXCEPT !.fault = "freed"]
     ELSE IF G_TYPE_IS_OBJECT(gtype) THEN g_object_unref(w, obj)
     ELSE IF info # 0 /\ girepo[info].unref
     THEN unref_function(w, obj)
     ELSE IF object_load_function(gtype, "_unref")
     THEN unref_function(w, obj)
     ELSE [w EXCEPT !.warn = TRUE]

\* Mutant: a type without a way to unref is released like a GObject.
object_unref_fallback(w, obj, remove_proxy) ==
  LET gtype == gtypeOf[obj]
      info == FindInfo(gtype)
  IN IF w.rc[obj] = 0 THEN [w EXCEPT !.fault = "freed"]
     ELSE IF G_TYPE_IS_OBJECT(gtype)
     THEN IF remove_proxy THEN g_object_remove_toggle_ref(w, obj)
          ELSE g_object_unref(w, obj)
     ELSE unref_function(w, obj)

\* Removes one reference from the object.  Reading the type of a freed
\* instance is undefined.
object_unref(w, obj, remove_proxy) ==
  LET gtype == gtypeOf[obj]
      info == FindInfo(gtype)
  IN IF w.rc[obj] = 0 THEN [w EXCEPT !.fault = "freed"]
     ELSE IF G_TYPE_IS_OBJECT(gtype)
     THEN IF remove_proxy THEN g_object_remove_toggle_ref(w, obj)
          ELSE g_object_unref(w, obj)
     ELSE IF info # 0 /\ girepo[info].unref
     THEN unref_function(w, obj)
     ELSE IF object_load_function(gtype, "_unref")
     THEN unref_function(w, obj)
     ELSE [w EXCEPT !.warn = TRUE]

\* ----------------------------------------------------------- Proxy facade
\* A new userdata: its pointer, its life (live, pending its __gc, dead), the
\* number of times object_gc ran on it, whether it was created without the
\* binding getting a reference (object_refsink failed), and the keys of its
\* environment table, which lua_newtable creates empty.
NewProxy(obj) ==
  [native |-> obj, st |-> "live", gcs |-> 0, borrowed |-> FALSE, env |-> {}]

\* Mutant: the reference handed over with own is kept on a cache hit.
CacheHit_keepRef(w, obj, own) ==
  [w EXCEPT !.ret = w.weak[obj], !.hit = TRUE]

\* The object is in the weak cache: use it, and drop the reference the caller
\* handed over.
CacheHit(w, obj, own) ==
  LET w1 == [w EXCEPT !.ret = w.weak[obj], !.hit = TRUE]
  IN IF own THEN object_unref(w1, obj, FALSE) ELSE w1

\* Mutant: the toggle reference is added but the strong cache is not seeded.
CacheMiss_noSeed(w, obj, own) ==
  LET id == Len(w.recs) + 1
      w1 == [w EXCEPT !.recs = Append(@, NewProxy(obj)),
                      !.weak[obj] = id, !.ret = id]
      gtype == gtypeOf[obj]
      rs == IF ~own THEN object_refsink(w1, obj) ELSE [w |-> w1, ok |-> FALSE]
      own1 == own \/ rs.ok
      w2 == [rs.w EXCEPT !.recs[id].borrowed = ~own1]
  IN IF G_TYPE_IS_OBJECT(gtype)
     THEN LET w3 == g_object_add_toggle_ref(w2, obj)
          IN IF own1 THEN g_object_unref(w3, obj) ELSE w3
     ELSE w2

\* Mutant: the toggle reference is installed for an object of any type.
CacheMiss_toggleAll(w, obj, own) ==
  LET id == Len(w.recs) + 1
      w1 == [w EXCEPT !.recs = Append(@, NewProxy(obj)),
                      !.weak[obj] = id, !.ret = id]
      rs == IF ~own THEN object_refsink(w1, obj) ELSE [w |-> w1, ok |-> FALSE]
      own1 == own \/ rs.ok
      w2 == [rs.w EXCEPT !.recs[id].borrowed = ~own1]
      w3 == g_object_add_toggle_ref(w2, obj)
      w4 == object_toggle_notify(w3, obj, FALSE)
  IN IF own1 THEN g_object_unref(w4, obj) ELSE w4

\* lgi_object_2lua for a GObject not in the weak cache, up to the call of
\* object_toggle_notify: the world and the value of own at that point.
CacheMissHead(w, obj, own) ==
  LET id == Len(w.recs) + 1
      w1 == [w EXCEPT !.recs = Append(@, NewProxy(obj)),
                      !.weak[obj] = id, !.ret = id]
      rs == IF ~own THEN object_refsink(w1, obj) ELSE [w |-> w1, ok |-> FALSE]
      own1 == own \/ rs.ok
      w2 == [rs.w EXCEPT !.recs[id].borrowed = ~own1]
  IN [w |-> g_object_add_toggle_ref(w2, obj), own |-> own1]

\* lgi_object_2lua for a GObject after object_toggle_notify returned.
CacheMissTail(w, obj, own) == IF own THEN g_object_unref(w, obj) ELSE w

\* Creates the userdata, stores it into the weak cache, takes ownership and,
\* for a GObject, installs the toggle reference.
CacheMiss(w, obj, own) ==
  LET id == Len(w.recs) + 1
      w1 == [w EXCEPT !.recs = Append(@, NewProxy(obj)),
                      !.weak[obj] = id, !.ret = id]
      gtype == gtypeOf[obj]
      rs == IF ~own THEN object_refsink(w1, obj) ELSE [w |-> w1, ok |-> FALSE]
      own1 == own \/ rs.ok
      w2 == [rs.w EXCEPT !.recs[id].borrowed = ~own1]
  IN IF G_TYPE_IS_OBJECT(gtype)
     THEN LET w3 == g_object_add_toggle_ref(w2, obj)
              w4 == object_toggle_notify(w3, obj, FALSE)
          IN IF own1 THEN g_object_unref(w4, obj) ELSE w4
     ELSE w2

\* Mutant: the proxy is looked up in the strong cache.
lgi_object_2lua_strongLookup(w, obj, own) ==
  IF obj = NULL THEN [w EXCEPT !.ret = 0]
  ELSE IF w.strong[obj] # 0 THEN CacheHit(w, obj, own)
  ELSE CacheMiss(w, obj, own)

lgi_object_2lua(w, obj, own) ==
  IF obj = NULL THEN [w EXCEPT !.ret = 0]
  ELSE IF w.weak[obj] # 0 THEN CacheHit(w, obj, own)
  ELSE CacheMiss(w, obj, own)

\* __gc metamethod.
object_gc(w, r) ==
  LET w1 == object_unref(w, w.recs[r].native, TRUE)
  IN [w1 EXCEPT !.recs[r].gcs = @ + 1]

\* ------------------------------------------------- Lua values to C
\* The values a Lua caller can pass: no argument, nil, a number, a userdata
\* of another library, or a proxy of this one.
LuaValues(w) ==
  [k : {"none", "nil", "number", "userdata"}, r : {0}]
    \cup {[k |-> "proxy", r |-> r] : r \in {i \in DOMAIN w.recs : w.recs[i].st = "live"}}

lua_isnoneornil(narg) == narg.k \in {"none", "nil"}

\* lua_typename(L, lua_type(L, narg)).
lua_typename(narg) ==
  CASE narg.k = "none" -> "no value"
    [] narg.k = "nil" -> "nil"
    [] narg.k = "number" -> "number"
    [] OTHER -> "userdata"

\* g_type_name of the registered types.
g_type_name(gtype) ==
  CASE gtype = G_TYPE_OBJECT -> "GObject"
    [] gtype = GTypeDerived -> "GDerived"
    [] gtype = GTypeFund -> "GFund"
    [] OTHER -> "GFundSub"

\* The _name field of the typetable of gtype.
RepoName(gtype) ==
  CASE gtype = G_TYPE_OBJECT -> "GObject.Object"
    [] gtype = GTypeDerived -> "GObject.Derived"
    [] gtype = GTypeFund -> "Fund.Base"
    [] OTHER -> "Fund.Sub"

RECURSIVE g_type_is_a(_, _)
g_type_is_a(type, is_a_type) ==
  IF type = G_TYPE_INVALID THEN FALSE
  ELSE IF type = is_a_type THEN TRUE
  ELSE g_type_is_a(g_type_parent(type), is_a_type)

\* The native pointer of a userdata whose metatable is the object metatable,
\* NULL for every other value.
object_check(w, narg) ==
  IF narg.k = "proxy" THEN w.recs[narg.r].native ELSE NULL

\* The parts of the message luaL_argerror is given: the names that stand
\* before " expected, got " and the name that stands after it.
object_type_error(narg, gtype) ==
  LET found_gtype == object_type(gtype)
  IN [expected |->
        IF found_gtype # G_TYPE_INVALID
        THEN IF gtype = found_gtype THEN <<RepoName(found_gtype)>>
             ELSE <<RepoName(found_gtype), g_type_name(gtype)>>
        ELSE IF gtype = G_TYPE_INVALID THEN <<"lgi.object">>
             ELSE <<g_type_name(gtype)>>,
      got |-> lua_typename(narg)]

NoMessage == [expected |-> <<>>, got |-> ""]

\* Mutant: nil is accepted whether or not the argument is optional.
lgi_object_2c_nilAccepted(w, narg, gtype, optional, nothrow) ==
  IF lua_isnoneornil(narg)
  THEN [ret |-> NULL, raised |-> FALSE, msg |-> NoMessage]
  ELSE [ret |-> object_check(w, narg), raised |-> FALSE, msg |-> NoMessage]

lgi_object_2c(w, narg, gtype, optional, nothrow) ==
  IF optional /\ lua_isnoneornil(narg)
  THEN [ret |-> NULL, raised |-> FALSE, msg |-> NoMessage]
  ELSE LET obj == object_check(w, narg)
       IN IF /\ ~nothrow
             /\ \/ obj = NULL
                \/ /\ gtype # G_TYPE_INVALID
                   /\ ~g_type_is_a(gtypeOf[obj], gtype)
          THEN [ret |-> NULL, raised |-> TRUE,
                msg |-> object_type_error(narg, gtype)]
          ELSE [ret |-> obj, raised |-> FALSE, msg |-> NoMessage]

query_mode == {"gtype", "repo", "class", "env"}

\* The number of results and the result: a gtype for mode gtype, the gtype
\* whose typetable is returned for mode repo, the gtype whose class record
\* type wraps the class struct for mode class, the proxy whose environment
\* table is returned for mode env.
object_query(w, narg, mode, tag) ==
  LET object == object_check(w, narg)
  IN IF object = NULL THEN [n |-> 0, ret |-> 0]
     ELSE LET gtype == IF tag = G_TYPE_INVALID THEN gtypeOf[object] ELSE tag
          IN IF mode = "gtype" THEN [n |-> 1, ret |-> gtype]
             ELSE IF mode = "env" THEN [n |-> 1, ret |-> narg.r]
             ELSE IF object_type(gtype) # G_TYPE_INVALID
                  THEN [n |-> 1, ret |-> object_type(gtype)]
                  ELSE [n |-> 0, ret |-> 0]

\* ------------------------------------------------------------- actions
NoRes ==
  [op |-> "none", arg |-> [k |-> "none", r |-> 0], gtype |-> G_TYPE_INVALID,
   optional |-> FALSE, nothrow |-> FALSE, mode |-> "", n |-> 0, ret |-> 0,
   raised |-> FALSE, msg |-> NoMessage]

\* The callback context and the threads at rest: nobody is inside
\* lgi_callback_enter .. lgi_callback_leave.
Threads == {"R", "F"}
AtRest ==
  [owner |-> "none", depth |-> 0, pc |-> [t \in Threads |-> "idle"],
   obj |-> [t \in Threads |-> NULL], is_last_ref |-> [t \in Threads |-> FALSE],
   own |-> FALSE]

Write(w, op, ptr, own) ==
  /\ res' = res
  /\ rc' = w.rc
  /\ floating' = w.fl
  /\ ntoggle' = w.nt
  /\ weak' = w.weak
  /\ strong' = w.strong
  /\ recs' = w.recs
  /\ fault' = w.fault
  /\ last' = [op |-> op, ptr |-> ptr, own |-> own, ret |-> w.ret,
              hit |-> w.hit, warn |-> w.warn]
  /\ UNCHANGED types

\* A handler that runs as one step of the runtime's thread.
Commit(w, op, ptr, own) == Write(w, op, ptr, own) /\ thr' = thr

Unfinalized(p) == {r \in DOMAIN recs : recs[r].native = p /\ recs[r].st # "dead"}

\* The type setups of the model: GObject is known to both repositories and
\* its subclass to GIRepository only; the other fundamental type may have an
\* info with or without ref and unref functions and a typetable with or
\* without the two functions, and its subtype is known to neither.
NoTable == [reg |-> FALSE, hooks |-> {}]
NoInfo == [reg |-> FALSE, ref |-> FALSE, unref |-> FALSE]
Tables == {NoTable} \cup [reg : {TRUE}, hooks : SUBSET HookNames]
Infos == {NoInfo} \cup [reg : {TRUE}, ref : BOOLEAN, unref : BOOLEAN]

TypeSetup ==
  /\ gtypeOf = (1 :> GTypeDerived @@ 2 :> GTypeFundSub)
  /\ repo \in [GTypes -> Tables]
  /\ repo[G_TYPE_OBJECT] = [reg |-> TRUE, hooks |-> {}]
  /\ repo[GTypeDerived] = NoTable
  /\ repo[GTypeFundSub] = NoTable
  /\ girepo \in [GTypes -> Infos]
  /\ girepo[G_TYPE_OBJECT] = [reg |-> TRUE, ref |-> FALSE, unref |-> FALSE]
  /\ girepo[GTypeDerived] = [reg |-> TRUE, ref |-> FALSE, unref |-> FALSE]
  /\ girepo[GTypeFundSub] = NoInfo

Init ==
  /\ TypeSetup
  /\ floating \in [Ptrs -> BOOLEAN]
  /\ G_TYPE_IS_OBJECT(gtypeOf[2]) \/ ~floating[2]
  /\ rc = [p \in Ptrs |-> 1]
  /\ ext = [p \in Ptrs |-> IF floating[p] THEN 0 ELSE 1]
  /\ ntoggle = [p \in Ptrs |-> 0]
  /\ weak = [p \in Ptrs |-> 0]
  /\ strong = [p \in Ptrs |-> 0]
  /\ recs = <<>>
  /\ fault = "none"
  /\ last = [op |-> "init", ptr |-> 0, own |-> FALSE, ret |-> 0,
             hit |-> FALSE, warn |-> FALSE]
  /\ res = NoRes
  /\ thr = AtRest

\* lgi_object_2lua called by the binding with a valid pointer; with own the
\* caller hands over a reference it holds.
Lua2(p, own) ==
  /\ fault = "none"
  /\ rc[p] > 0
  /\ own => ext[p] > 0
  /\ weak[p] = 0 => Len(recs) < MaxRec
  /\ ext' = IF own THEN [ext EXCEPT ![p] = @ - 1] ELSE ext
  /\ Commit(lgi_object_2lua(World, p, own), "2lua", p, own)

\* Another holder takes a reference.
ExtRef(p) ==
  /\ fault = "none"
  /\ rc[p] > 0 /\ rc[p] < MaxRef
  /\ ext' = [ext EXCEPT ![p] = @ + 1]
  /\ Commit(IF G_TYPE_IS_OBJECT(gtypeOf[p]) THEN g_object_ref(World, p)
            ELSE ref_function(World, p), "ref", p, FALSE)

\* Another holder sinks the floating reference and so owns it.
ExtRefSink(p) ==
  /\ fault = "none"
  /\ rc[p] > 0 /\ floating[p]
  /\ ext' = [ext EXCEPT ![p] = @ + 1]
  /\ Commit(IF G_TYPE_IS_OBJECT(gtypeOf[p]) THEN g_object_ref_sink(World, p)
            ELSE refsink_func(World, p), "sink", p, FALSE)

\* Another holder drops a reference it holds.  The lender of a pointer the
\* binding holds no reference to keeps the object alive while a proxy exists.
ExtUnref(p) ==
  /\ fault = "none"
  /\ rc[p] > 0 /\ ext[p] > 0
  /\ rc[p] = 1 => Unfinalized(p) = {}
  /\ ext' = [ext EXCEPT ![p] = @ - 1]
  /\ Commit(IF G_TYPE_IS_OBJECT(gtypeOf[p]) THEN g_object_unref(World, p)
            ELSE unref_function(World, p), "unref", p, FALSE)

\* The Lua collector finds a proxy unreachable: only the weak cache refers
\* to it.  Lua removes it from the weak-value table at once and calls its
\* __gc later.
Collect(r) ==
  /\ fault = "none"
  /\ recs[r].st = "live"
  /\ strong[recs[r].native] # r
  /\ LET p == recs[r].native
         w == [World EXCEPT !.recs[r].st = "pending",
                            !.weak[p] = IF @ = r THEN 0 ELSE @]
     IN Commit(w, "collect", p, FALSE)
  /\ UNCHANGED ext

\* The collector calls __gc of a collected proxy.
Finalize(r) ==
  /\ fault = "none"
  /\ recs[r].st = "pending"
  /\ LET w == object_gc(World, r)
     IN Commit([w EXCEPT !.recs[r].st = "dead", !.ret = r], "gc",
               recs[r].native, FALSE)
  /\ UNCHANGED ext

Next ==
  \/ \E p \in Ptrs, own \in BOOLEAN : Lua2(p, own)
  \/ \E p \in Ptrs : ExtRef(p)
  \/ \E p \in Ptrs : ExtRefSink(p)
  \/ \E p \in Ptrs : ExtUnref(p)
  \/ \E r \in DOMAIN recs : Collect(r)
  \/ \E r \in DOMAIN recs : Finalize(r)

Spec == Init /\ [][Next]_vars

\* The metatable of a proxy is not protected, so a script can call its __gc
\* metamethod on a proxy it still holds; the collector calls it again later.
ScriptGc(r) ==
  /\ fault = "none"
  /\ recs[r].st = "live"
  /\ recs[r].gcs < MaxScriptGc
  /\ LET w == object_gc(World, r)
     IN Commit([w EXCEPT !.ret = r], "gc", recs[r].native, FALSE)
  /\ UNCHANGED ext

NextGc ==
  \/ \E p \in Ptrs, own \in BOOLEAN : Lua2(p, own)
  \/ \E p \in Ptrs : ExtRef(p)
  \/ \E p \in Ptrs : ExtRefSink(p)
  \/ \E p \in Ptrs : ExtUnref(p)
  \/ \E r \in DOMAIN recs : Collect(r)
  \/ \E r \in DOMAIN recs : Finalize(r)
  \/ \E r \in DOMAIN recs : ScriptGc(r)

SpecGc == Init /\ [][NextGc]_vars

\* The calls a Lua program makes on values: every typetable may or may not
\* be loaded, one object is an instance of the type derived from GObject and
\* the other of the other fundamental type, and every type other than
\* GObject has ref and unref functions.
TypeSetupApi ==
  /\ gtypeOf = (1 :> GTypeDerived @@ 2 :> GTypeFund)
  /\ repo \in [GTypes -> {NoTable, [reg |-> TRUE, hooks |-> {}]}]
  /\ girepo = [t \in GTypes |->
                [reg |-> TRUE, ref |-> ~G_TYPE_IS_OBJECT(t),
                 unref |-> ~G_TYPE_IS_OBJECT(t)]]

InitApi ==
  /\ TypeSetupApi
  /\ floating = [p \in Ptrs |-> FALSE]
  /\ rc = [p \in Ptrs |-> 1]
  /\ ext = [p \in Ptrs |-> 1]
  /\ ntoggle = [p \in Ptrs |-> 0]
  /\ weak = [p \in Ptrs |-> 0]
  /\ strong = [p \in Ptrs |-> 0]
  /\ recs = <<>>
  /\ fault = "none"
  /\ last = [op |-> "init", ptr |-> 0, own |-> FALSE, ret |-> 0,
             hit |-> FALSE, warn |-> FALSE]
  /\ res = NoRes
  /\ thr = AtRest

\* lgi_object_2lua called with a NULL pointer.
Lua2Null(own) ==
  /\ fault = "none"
  /\ Commit(lgi_object_2lua(World, NULL, own), "2lua", NULL, own)
  /\ UNCHANGED ext

CallVars ==
  <<rc, floating, ext, ntoggle, weak, strong, recs, fault, last, thr>>

\* lgi_object_2c called on a Lua value.
ToC(narg, gtype, optional, nothrow) ==
  /\ fault = "none"
  /\ LET r == lgi_object_2c(World, narg, gtype, optional, nothrow)
     IN res' = [NoRes EXCEPT !.op = "2c", !.arg = narg, !.gtype = gtype,
                             !.optional = optional, !.nothrow = nothrow,
                             !.ret = r.ret, !.raised = r.raised,
                             !.msg = r.msg]
  /\ UNCHANGED <<types, CallVars>>

\* object_type called for a gtype.
Classify(gtype) ==
  /\ res' = [NoRes EXCEPT !.op = "classify", !.gtype = gtype,
                          !.ret = object_type(gtype)]
  /\ UNCHANGED <<types, CallVars>>

\* object.query(value, mode [, gtype]) called from Lua.
Query(narg, mode, tag) ==
  /\ fault = "none"
  /\ LET r == object_query(World, narg, mode, tag)
     IN res' = [NoRes EXCEPT !.op = "query", !.arg = narg, !.gtype = tag,
                             !.mode = mode, !.n = r.n, !.ret = r.ret]
  /\ UNCHANGED <<types, CallVars>>

\* Proxies are created from borrowed pointers and handed to lgi_object_2c.
Next2c ==
  \/ \E p \in Ptrs : Lua2(p, FALSE)
  \/ \E own \in BOOLEAN : Lua2Null(own)
  \/ \E narg \in LuaValues(World), gtype \in GTypes \cup {G_TYPE_INVALID},
        optional \in BOOLEAN, nothrow \in BOOLEAN :
          ToC(narg, gtype, optional, nothrow)

Spec2c == InitApi /\ [][Next2c]_vars

\* Proxies are created from borrowed pointers and queried; types are
\* classified.
NextQuery ==
  \/ \E p \in Ptrs : Lua2(p, FALSE)
  \/ \E gtype \in GTypes \cup {G_TYPE_INVALID} : Classify(gtype)
  \/ \E narg \in LuaValues(World), mode \in query_mode,
        tag \in GTypes \cup {G_TYPE_INVALID} : Query(narg, mode, tag)

SpecQuery == InitApi /\ [][NextQuery]_vars

TypeOK ==
  /\ rc \in [Ptrs -> 0..(MaxRef + MaxRec + 1)]
  /\ weak \in [Ptrs -> 0..MaxRec]
  /\ strong \in [Ptrs -> 0..MaxRec]
  /\ Len(recs) <= MaxRec

\* ------------------------------------------------------------ vocabulary
IsGObject(p) == G_TYPE_IS_OBJECT(gtypeOf[p])
\* Proxies of p the script can still reach, and those awaiting their __gc.
LiveProxies(p) == {r \in DOMAIN recs : recs[r].native = p /\ recs[r].st = "live"}
PendingProxies(p) == {r \in DOMAIN recs : recs[r].native = p /\ recs[r].st = "pending"}
\* References to p that no other party holds: the count minus the references
\* of others and minus the floating reference, which nobody owns.
Held(p) == rc[p] - ext[p] - (IF floating[p] THEN 1 ELSE 0)
\* object_unref finds a way to release an instance of gtype.
HasUnref(gtype) ==
  \/ G_TYPE_IS_OBJECT(gtype)
  \/ FindInfo(gtype) # 0 /\ girepo[FindInfo(gtype)].unref
  \/ object_load_function(gtype, "_unref")
\* object_gc runs on proxy r in this step.
GcStep(r) == r \in DOMAIN recs /\ recs'[r].gcs = recs[r].gcs + 1
\* No reference count and no toggle registration other than p's changes.
OthersKept(p) ==
  \A q \in Ptrs \ {p} : rc'[q] = rc[q] /\ ntoggle'[q] = ntoggle[q]

C2_OneProxyPerObject ==
  \A p \in Ptrs : rc[p] > 0 => Cardinality(Unfinalized(p)) <= 1

C4_StrongIffShared ==
  \A p \in Ptrs :
    (IsGObject(p) /\ LiveProxies(p) # {}) => (strong[p] # 0 <=> rc[p] > 1)

\* C4 witnesses: right after a call that created the proxy of an object
\* others hold, and after a later unref that left the binding alone.
C4_Witness ==
  /\ last.op = "2lua" /\ ~last.hit /\ ~last.own /\ IsGObject(last.ptr)
  /\ strong[last.ptr] # 0 /\ rc[last.ptr] = 2

\* C5: toggle round trip.  While the proxy of a GObject stays live, a step
\* that takes the count from 1 to 2 finds the strong cache slot empty and
\* fills it with the weak cache's proxy, a step from 2 to 1 finds it filled
\* and empties it, and the weak cache entry never changes.
C5_ToggleRoundTrip ==
  [][\A p \in Ptrs :
       (IsGObject(p) /\ LiveProxies(p) # {} /\ recs' = recs) =>
         /\ weak'[p] = weak[p]
         /\ (rc[p] = 1 /\ rc'[p] = 2) =>
              strong[p] = 0 /\ strong'[p] = weak[p] /\ strong'[p] # 0
         /\ (rc[p] = 2 /\ rc'[p] = 1) =>
              strong[p] = weak[p] /\ strong'[p] = 0]_vars

\* C5 witness: the count is back at 1 after an external unref, the proxy is
\* only in the weak cache.
C5_Witness ==
  /\ last.op = "unref" /\ IsGObject(last.ptr) /\ rc[last.ptr] = 1
  /\ weak[last.ptr] # 0 /\ strong[last.ptr] = 0 /\ ntoggle[last.ptr] = 1

\* C6: the strong cache is an overlay of the weak cache.
C6_StrongOverlay ==
  \A p \in Ptrs : strong[p] # 0 => weak[p] = strong[p]

\* C6 witness: a toggle notification with is_last_ref false arrived for an
\* object whose weak cache entry was already cleared.
C6_Witness ==
  /\ last.op = "ref" /\ IsGObject(last.ptr) /\ ntoggle[last.ptr] = 1
  /\ rc[last.ptr] = 2 /\ weak[last.ptr] = 0 /\ strong[last.ptr] = 0

C8_SecondFinalizeNoop ==
  [][\A r \in DOMAIN recs :
       (GcStep(r) /\ recs[r].gcs >= 1) => rc' = rc /\ ntoggle' = ntoggle]_vars

\* C9: a GObject has at most one toggle reference of the binding, and has
\* one exactly while a proxy of it is created and not yet finalized.
C9_ToggleOneToOne ==
  \A p \in Ptrs :
    IsGObject(p) =>
      /\ ntoggle[p] <= 1
      /\ ntoggle[p] = 1 <=> Unfinalized(p) # {}

\* C10: the binding never releases a borrowed object: finalizing a proxy
\* created without a reference, and a cache hit without own on it, leave the
\* object's reference count as it was.
C10_BorrowedNeverReleased ==
  [][\A r \in DOMAIN recs :
       recs[r].borrowed =>
         /\ GcStep(r) => rc'[recs[r].native] = rc[recs[r].native]
         /\ (Lua2(recs[r].native, FALSE) /\ last'.ret = r) =>
              rc'[recs[r].native] = rc[recs[r].native]]_vars

\* Taking ownership: the other fundamental type and its subtype may each
\* have an info, with or without ref and unref functions, and a typetable,
\* with or without the two functions.  The function pointers of an info are
\* resolved through its parents, so the info of the subtype has every
\* function the info of its parent has.
TypeSetupRefsink ==
  /\ gtypeOf = (1 :> GTypeDerived @@ 2 :> GTypeFundSub)
  /\ repo \in [GTypes -> Tables]
  /\ repo[G_TYPE_OBJECT] = [reg |-> TRUE, hooks |-> {}]
  /\ repo[GTypeDerived] = NoTable
  /\ girepo \in [GTypes -> Infos]
  /\ girepo[G_TYPE_OBJECT] = [reg |-> TRUE, ref |-> FALSE, unref |-> FALSE]
  /\ girepo[GTypeDerived] = [reg |-> TRUE, ref |-> FALSE, unref |-> FALSE]
  /\ (girepo[GTypeFundSub].reg /\ girepo[GTypeFund].reg) =>
       /\ girepo[GTypeFund].ref => girepo[GTypeFundSub].ref
       /\ girepo[GTypeFund].unref => girepo[GTypeFundSub].unref

InitRefsink ==
  /\ TypeSetupRefsink
  /\ floating \in [Ptrs -> BOOLEAN]
  /\ rc = [p \in Ptrs |-> 1]
  /\ ext = [p \in Ptrs |-> IF floating[p] THEN 0 ELSE 1]
  /\ ntoggle = [p \in Ptrs |-> 0]
  /\ weak = [p \in Ptrs |-> 0]
  /\ strong = [p \in Ptrs |-> 0]
  /\ recs = <<>>
  /\ fault = "none"
  /\ last = [op |-> "init", ptr |-> 0, own |-> FALSE, ret |-> 0,
             hit |-> FALSE, warn |-> FALSE]
  /\ res = NoRes
  /\ thr = AtRest

NextRefsink ==
  \/ \E p \in Ptrs, own \in BOOLEAN : Lua2(p, own)
  \/ \E r \in DOMAIN recs : Collect(r)
  \/ \E r \in DOMAIN recs : Finalize(r)

SpecRefsink == InitRefsink /\ [][NextRefsink]_vars

\* object_refsink finds a ref function for gtype.
HasRef(gtype) == FindInfo(gtype) # 0 /\ girepo[FindInfo(gtype)].ref
\* lgi_object_2lua creates a proxy of p without own in this step.
RefsinkStep(p) == Lua2(p, FALSE) /\ ~last'.hit

\* C17: object_refsink uses exactly one mechanism, in this order: for a
\* GObject g_object_ref_sink; else the ref function of the info found for
\* the type or for its fundamental type; else the _refsink function of the
\* typetable object_type finds.  It succeeds exactly when it used one, and
\* otherwise warns and changes no reference count.  Seen at the creation of
\* a proxy without own, whose only other effect on the count is the toggle
\* reference replacing the reference just taken.
C17_RefsinkPriority ==
  [][\A p \in Ptrs :
       RefsinkStep(p) =>
         LET t == gtypeOf[p]
             sunk == /\ floating'[p] = FALSE
                     /\ rc'[p] = rc[p] + (IF floating[p] THEN 0 ELSE 1)
             reffed == floating'[p] = floating[p] /\ rc'[p] = rc[p] + 1
             took == ~recs'[last'.ret].borrowed /\ ~last'.warn
         IN /\ IF G_TYPE_IS_OBJECT(t) THEN sunk /\ took
               ELSE IF HasRef(t) THEN reffed /\ took
               ELSE IF object_load_function(t, "_refsink") THEN sunk /\ took
               ELSE /\ rc'[p] = rc[p] /\ floating'[p] = floating[p]
                    /\ recs'[last'.ret].borrowed /\ last'.warn
            /\ \A q \in Ptrs \ {p} : rc'[q] = rc[q] /\ floating'[q] = floating[q]]_vars

\* C17 witness: a floating object of a type that has both a ref function
\* and a _refsink function was referenced and is still floating.
C17_Witness ==
  /\ last.op = "2lua" /\ ~last.hit /\ ~last.own /\ ~IsGObject(last.ptr)
  /\ HasRef(gtypeOf[last.ptr])
  /\ object_load_function(gtypeOf[last.ptr], "_refsink")
  /\ floating[last.ptr] /\ rc[last.ptr] = 2

\* C18: object_unref of an object that is not a GObject and whose type has
\* neither an unref function nor an _unref typetable function, run by
\* object_gc or by a cache hit with own, only warns: the two caches, every
\* reference count, toggle registration and floating flag stay as they are
\* and the process stays in defined behaviour.
C18_UnreleasableOnlyWarns ==
  [][\A p \in Ptrs :
       (~IsGObject(p) /\ ~HasUnref(gtypeOf[p])) =>
         /\ \A r \in DOMAIN recs :
              (GcStep(r) /\ recs[r].native = p) =>
                /\ UNCHANGED <<rc, ntoggle, floating, weak, strong>>
                /\ fault' = "none" /\ last'.warn
         /\ (Lua2(p, TRUE) /\ last'.hit) =>
              /\ UNCHANGED <<rc, ntoggle, floating, weak, strong, recs>>
              /\ fault' = "none" /\ last'.warn]_vars

\* C18 witness: the proxy of an object whose type has no info and no
\* typetable was finalized while another holder had two references.
C18_Witness ==
  /\ last.op = "gc" /\ last.warn /\ ~IsGObject(last.ptr)
  /\ FindInfo(gtypeOf[last.ptr]) = 0
  /\ object_type(gtypeOf[last.ptr]) = G_TYPE_INVALID
  /\ rc[last.ptr] = 2 /\ recs[last.ret].st = "dead"

\* ------------------------------------------------- environment tables
\* A Lua program gets the environment table of a proxy it holds from
\* object.query(proxy, 'env') and stores a key into it.
EnvWrite(r) ==
  /\ fault = "none"
  /\ recs[r].st = "live"
  /\ recs[r].env = {}
  /\ object_query(World, [k |-> "proxy", r |-> r], "env", G_TYPE_INVALID).ret = r
  /\ recs' = [recs EXCEPT ![r].env = {"key"}]
  /\ last' = [op |-> "env", ptr |-> recs[r].native, own |-> FALSE, ret |-> r,
              hit |-> FALSE, warn |-> FALSE]
  /\ UNCHANGED <<types, rc, floating, ext, ntoggle, weak, strong, fault, res,
                 thr>>

\* No object is floating; the other fundamental type has no typetable and
\* either no info or an info with both functions.
InitEnv ==
  /\ Init
  /\ floating = [p \in Ptrs |-> FALSE]
  /\ repo[GTypeFund] = NoTable
  /\ girepo[GTypeFund] \in {NoInfo, [reg |-> TRUE, ref |-> TRUE, unref |-> TRUE]}

NextEnv ==
  \/ \E p \in Ptrs, own \in BOOLEAN : Lua2(p, own)
  \/ \E p \in Ptrs : ExtRef(p)
  \/ \E p \in Ptrs : ExtUnref(p)
  \/ \E r \in DOMAIN recs : Collect(r)
  \/ \E r \in DOMAIN recs : Finalize(r)
  \/ \E r \in DOMAIN recs : EnvWrite(r)

SpecEnv == InitEnv /\ [][NextEnv]_vars

C20_NonGObjectUntracked ==
  [][\A p \in Ptrs :
       ~IsGObject(p) =>
         /\ ntoggle'[p] = 0 /\ strong'[p] = 0
         /\ \A r \in DOMAIN recs :
              (recs[r].native = p /\ recs[r].st = "live" /\ fault = "none") =>
                ENABLED Collect(r)
         /\ \A own \in BOOLEAN :
              (Lua2(p, own) /\ ~last'.hit) =>
                /\ last'.ret = Len(recs) + 1
                /\ Len(recs') = Len(recs) + 1
                /\ recs'[last'.ret].env = {}
                /\ recs'[last'.ret].st = "live"
                /\ weak'[p] = last'.ret]_vars

\* C20 witness: the first proxy of the object, whose environment table had
\* a key, was collected while another holder had a reference, and
\* lgi_object_2lua created a second proxy.
C20_Witness ==
  /\ last.op = "2lua" /\ ~last.hit /\ ~IsGObject(last.ptr) /\ last.ret = 2
  /\ recs[1].native = last.ptr /\ recs[1].env # {} /\ recs[1].st # "live"
  /\ recs[2].env = {} /\ ext[last.ptr] > 0 /\ weak[last.ptr] = 2

\* ------------------------------------------------------------ threads
\* lgi_callback_enter gives the calling thread the right to run in the Lua
\* state; it is taken again by the thread that has it and by no other.
CanEnter(t) == thr.owner \in {"none", t}
lgi_callback_enter(c, t) == [c EXCEPT !.owner = t, !.depth = @ + 1]
lgi_callback_leave(c, t) ==
  [c EXCEPT !.depth = @ - 1, !.owner = IF c.depth = 1 THEN "none" ELSE t]

\* Mutant: object_toggle_notify goes to the caches at once.
NotifyEntry_noEnter == "store"

\* Where object_toggle_notify starts: at lgi_callback_enter; the store to
\* the strong cache and lgi_callback_leave follow.
NotifyEntry == "enter"

At(c, t, pc) == [c EXCEPT !.pc[t] = pc]
WorldVars == <<rc, floating, ext, ntoggle, weak, strong, recs, fault, last>>

\* The runtime's thread, in the Lua state, calls lgi_object_2lua.  For a
\* GObject not in the weak cache it goes as far as the call of
\* object_toggle_notify; every other call is finished in this step.
RCall(p, own) ==
  /\ fault = "none"
  /\ thr.pc["R"] = "idle" /\ CanEnter("R")
  /\ rc[p] > 0
  /\ own => ext[p] > 0
  /\ weak[p] = 0 => Len(recs) < MaxRec
  /\ ext' = IF own THEN [ext EXCEPT ![p] = @ - 1] ELSE ext
  /\ LET c == lgi_callback_enter(thr, "R")
     IN IF weak[p] # 0 \/ ~G_TYPE_IS_OBJECT(gtypeOf[p])
        THEN /\ Write(lgi_object_2lua(World, p, own), "2lua", p, own)
             /\ thr' = At(c, "R", "ret")
        ELSE LET h == CacheMissHead(World, p, own)
             IN /\ Write(h.w, "2lua", p, own)
                /\ thr' = [c EXCEPT !.pc["R"] = NotifyEntry, !.obj["R"] = p,
                                    !.is_last_ref["R"] = FALSE, !.own = h.own]

\* object_toggle_notify, statement by statement, on either thread.
ToggleEnter(t) ==
  /\ thr.pc[t] = "enter" /\ CanEnter(t)
  /\ thr' = At(lgi_callback_enter(thr, t), t, "store")
  /\ UNCHANGED <<types, WorldVars, res>>

ToggleStore(t) ==
  /\ thr.pc[t] = "store"
  /\ Write(object_toggle_notify(World, thr.obj[t], thr.is_last_ref[t]),
           "toggle", thr.obj[t], FALSE)
  /\ thr' = At(thr, t, "leave")
  /\ UNCHANGED ext

ToggleLeave(t) ==
  /\ thr.pc[t] = "leave"
  /\ thr' = At(lgi_callback_leave(thr, t), t, IF t = "R" THEN "tail" ELSE "idle")
  /\ UNCHANGED <<types, WorldVars, res>>

\* lgi_object_2lua after object_toggle_notify: the reference handed over or
\* taken by object_refsink is dropped.
RTail ==
  /\ thr.pc["R"] = "tail"
  /\ Write(CacheMissTail(World, thr.obj["R"], thr.own), "tail", thr.obj["R"],
           thr.own)
  /\ thr' = At(thr, "R", "ret")
  /\ UNCHANGED ext

\* The call returns to Lua code; the thread gives the Lua state up between
\* two calls.
RReturn ==
  /\ thr.pc["R"] = "ret"
  /\ thr' = At(lgi_callback_leave(thr, "R"), "R", "idle")
  /\ UNCHANGED <<types, WorldVars, res>>

\* The collector runs on the runtime's thread.
RCollect(r) ==
  /\ fault = "none"
  /\ thr.pc["R"] = "idle" /\ CanEnter("R")
  /\ recs[r].st = "live"
  /\ strong[recs[r].native] # r
  /\ LET p == recs[r].native
         w == [World EXCEPT !.recs[r].st = "pending",
                            !.weak[p] = IF @ = r THEN 0 ELSE @]
     IN Write(w, "collect", p, FALSE)
  /\ thr' = At(lgi_callback_enter(thr, "R"), "R", "ret")
  /\ UNCHANGED ext

RFinalize(r) ==
  /\ fault = "none"
  /\ thr.pc["R"] = "idle" /\ CanEnter("R")
  /\ recs[r].st = "pending"
  /\ LET w == object_gc(World, r)
     IN Write([w EXCEPT !.recs[r].st = "dead", !.ret = r], "gc",
              recs[r].native, FALSE)
  /\ thr' = At(lgi_callback_enter(thr, "R"), "R", "ret")
  /\ UNCHANGED ext

\* Another thread calls g_object_ref or g_object_unref.  The count changes
\* atomically; the toggle notification, if one is due, is a call of
\* object_toggle_notify on that thread.
Notify(p, is_last_ref) ==
  [thr EXCEPT !.pc["F"] = NotifyEntry, !.obj["F"] = p,
              !.is_last_ref["F"] = is_last_ref]

FRef(p) ==
  /\ fault = "none"
  /\ thr.pc["F"] = "idle"
  /\ G_TYPE_IS_OBJECT(gtypeOf[p])
  /\ rc[p] > 0 /\ rc[p] < MaxRef
  /\ ext' = [ext EXCEPT ![p] = @ + 1]
  /\ LET due == rc[p] = 1 /\ ntoggle[p] > 0
     IN /\ Write([World EXCEPT !.rc[p] = @ + 1,
                               !.fault = IF due /\ ntoggle[p] # 1
                                         THEN "assert" ELSE @],
                 "ref", p, FALSE)
        /\ thr' = IF due /\ ntoggle[p] = 1 THEN Notify(p, FALSE) ELSE thr

FUnref(p) ==
  /\ fault = "none"
  /\ thr.pc["F"] = "idle"
  /\ G_TYPE_IS_OBJECT(gtypeOf[p])
  /\ rc[p] > 0 /\ ext[p] > 0
  /\ rc[p] = 1 => Unfinalized(p) = {}
  /\ ext' = [ext EXCEPT ![p] = @ - 1]
  /\ LET due == rc[p] = 2 /\ ntoggle[p] > 0
     IN /\ Write(IF rc[p] > 1
                 THEN [World EXCEPT !.rc[p] = @ - 1,
                                    !.fault = IF due /\ ntoggle[p] # 1
                                              THEN "assert" ELSE @]
                 ELSE [World EXCEPT !.rc[p] = 0, !.nt[p] = 0],
                 "unref", p, FALSE)
        /\ thr' = IF due /\ ntoggle[p] = 1 THEN Notify(p, TRUE) ELSE thr

\* No object is floating and the other fundamental type has an info with
\* both functions and no typetable.
InitThreads ==
  /\ Init
  /\ floating = [p \in Ptrs |-> FALSE]
  /\ repo[GTypeFund] = NoTable
  /\ girepo[GTypeFund] = [reg |-> TRUE, ref |-> TRUE, unref |-> TRUE]

NextThreads ==
  \/ \E p \in Ptrs, own \in BOOLEAN : RCall(p, own)
  \/ \E t \in Threads : ToggleEnter(t)
  \/ \E t \in Threads : ToggleStore(t)
  \/ \E t \in Threads : ToggleLeave(t)
  \/ RTail
  \/ RReturn
  \/ \E r \in DOMAIN recs : RCollect(r)
  \/ \E r \in DOMAIN recs : RFinalize(r)
  \/ \E p \in Ptrs : FRef(p)
  \/ \E p \in Ptrs : FUnref(p)

SpecThreads == InitThreads /\ [][NextThreads]_vars

\* Thread t is between lgi_callback_enter and lgi_callback_leave of
\* object_toggle_notify.
InNotify(t) == thr.pc[t] \in {"store", "leave"}

Names(msg) == {msg.expected[i] : i \in DOMAIN msg.expected} \cup {msg.got}
\* The argument of the last call is a proxy, of this native object.
ArgIsProxy == res.arg.k = "proxy"
ArgNative == recs[res.arg.r].native
\* The gtype k steps up from gtype, G_TYPE_INVALID above the root.
RECURSIVE Ancestor(_, _)
Ancestor(gtype, k) ==
  IF k = 0 \/ gtype = G_TYPE_INVALID THEN gtype
  ELSE Ancestor(g_type_parent(gtype), k - 1)
\* The steps from gtype to its ancestors-or-self that have a typetable.
LoadedSteps(gtype) ==
  {k \in 0..Cardinality(GTypes) :
     /\ Ancestor(gtype, k) # G_TYPE_INVALID
     /\ repo[Ancestor(gtype, k)].reg}

\* C11: lgi_object_2c without nothrow, called on a proxy whose type is not
\* the expected gtype or a descendant of it, raises an error whose message
\* contains the name of the expected type and the name of the type of the
\* proxy's object; called on a proxy whose type is the expected gtype or a
\* descendant of it, or with G_TYPE_INVALID, it returns the proxy's native
\* pointer and raises nothing.
C11_TypeMismatch ==
  (res.op = "2c" /\ ~res.nothrow /\ ArgIsProxy) =>
    IF res.gtype = G_TYPE_INVALID \/ g_type_is_a(gtypeOf[ArgNative], res.gtype)
    THEN ~res.raised /\ res.ret = ArgNative
    ELSE /\ res.raised
         /\ Names(res.msg) \cap {g_type_name(res.gtype), RepoName(res.gtype)} # {}
         /\ Names(res.msg) \cap {g_type_name(gtypeOf[ArgNative]),
                                  RepoName(gtypeOf[ArgNative])} # {}

\* C12: lgi_object_2c with nothrow never raises, and returns NULL whenever
\* the value is not a proxy or is a proxy of an object whose type is not the
\* expected gtype or a descendant of it.
C12_NoThrowYieldsNull ==
  (res.op = "2c" /\ res.nothrow) =>
    /\ ~res.raised
    /\ ~ArgIsProxy => res.ret = NULL
    /\ (/\ ArgIsProxy
        /\ res.gtype # G_TYPE_INVALID
        /\ ~g_type_is_a(gtypeOf[ArgNative], res.gtype)) => res.ret = NULL

\* C13: lgi_object_2lua of NULL returns nil for either own and changes no
\* cache, no reference count and no proxy; lgi_object_2c of nil or of no
\* value returns NULL without an error when the argument is optional, and
\* raises an error when it is neither optional nor nothrow.
C13_NullPropagation ==
  [][/\ \A own \in BOOLEAN :
          Lua2Null(own) =>
            /\ last'.ret = 0 /\ ~last'.warn
            /\ UNCHANGED <<rc, floating, ntoggle, weak, strong, recs, fault>>
     /\ (res'.op = "2c" /\ lua_isnoneornil(res'.arg)) =>
          /\ res'.optional => res'.ret = NULL /\ ~res'.raised
          /\ (~res'.optional /\ ~res'.nothrow) => res'.raised]_vars

\* C13 witness: with both proxies in the weak cache, lgi_object_2lua of NULL
\* with own was the last conversion to Lua and lgi_object_2c of nil, not
\* optional, raised.
C13_Witness ==
  /\ last.op = "2lua" /\ last.ptr = NULL /\ last.own /\ last.ret = 0
  /\ \A p \in Ptrs : weak[p] # 0
  /\ res.op = "2c" /\ res.arg.k = "nil" /\ ~res.optional /\ ~res.nothrow
  /\ res.raised

\* C15: object_type returns the nearest of the gtype and its ancestors that
\* has a typetable, and G_TYPE_INVALID exactly when none of them has one.
C15_NearestLoaded ==
  res.op = "classify" =>
    IF LoadedSteps(res.gtype) = {} THEN res.ret = G_TYPE_INVALID
    ELSE \E k \in LoadedSteps(res.gtype) :
           /\ res.ret = Ancestor(res.gtype, k)
           /\ \A j \in LoadedSteps(res.gtype) : k <= j

\* C15 witness: the type itself has no typetable and its parent has one.
C15_Witness ==
  /\ res.op = "classify" /\ res.gtype = GTypeFundSub /\ res.ret = GTypeFund
  /\ ~repo[GTypeFundSub].reg

\* C16: object.query returns, whatever gtype is passed as third argument,
\* the gtype of the proxy's object for mode gtype and the typetable found
\* for that gtype for mode repo, and for mode env the environment table of
\* the proxy itself.
C16_QueryReal ==
  (res.op = "query" /\ ArgIsProxy) =>
    /\ res.mode = "gtype" => res.n = 1 /\ res.ret = gtypeOf[ArgNative]
    /\ res.mode = "repo" =>
         /\ res.ret = object_type(gtypeOf[ArgNative])
         /\ res.n = (IF res.ret = G_TYPE_INVALID THEN 0 ELSE 1)
    /\ res.mode = "env" => res.n = 1 /\ res.ret = res.arg.r

====
